---------------------------- MODULE Spec2Model ----------------------------
(***************************************************************************)
(* A model of src/src/topology.rs: the topology store (Topology,           *)
(* TopologyNode, Interface), its read-only queries (find_internet_gateway, *)
(* get_adjacent_interface, get_local_iface_id_type) and the recursive      *)
(* path search find_path, executed with an explicit call stack.            *)
(*                                                                         *)
(* Values.  NodeId and IfaceIndex are integers.  A neighbor link           *)
(* (NodeId, IfaceIndex) is a pair <<node, iface>>.  Option<IfaceIndex> is  *)
(* <<>> for None and <<x>> for Some(x).  A HashMap is a function; the      *)
(* order in which a HashMap is iterated is not fixed by the program, so    *)
(* every iteration takes the order as a sequence of keys chosen by the     *)
(* model.  A Path is the sequence of its PathNodes (Path.nodes).           *)
(***************************************************************************)
EXTENDS Integers, Sequences, FiniteSets, TLC

VARIABLES
    topo,           \* Topology.nodes: NodeId -> TopologyNode
    iter_order,     \* NodeId -> the iteration order of that node's ifaces map
                    \* (<<>> while the search has not iterated the node yet)
    origin,         \* the top-level call's (start_id, start_if_id)
    finish_id,      \* find_path's finish_id
    finish_if_id,   \* find_path's finish_if_id
    curr_path,      \* find_path's curr_path
    path_vec,       \* find_path's path_vec (the accumulator)
    stack,          \* the frames of the calls of find_path that are in their loop
    callee,         \* the arguments (start_id, start_if_id) of the call being entered
    pc,             \* "call" | "loop" | "ret" | "done" | "query"
    ret,            \* the value the call that returned last has returned
    ret_base,       \* history: Len(path_vec) when the call that returned last was entered
    calls,          \* number of top-level calls of find_path started so far
    prev_paths,     \* the accumulator the previous top-level call has left
    query           \* the last query of the store and its result

vars == <<topo, iter_order, origin, finish_id, finish_if_id, curr_path, path_vec,
          stack, callee, pc, ret, ret_base, calls, prev_paths, query>>

(***************************************************************************)
(* Bounds of the generated topologies.                                     *)
(***************************************************************************)
\* Construction decisions (a neighbor link, or an interface that is not
\* LocalNet) a generated topology is away from the blank one.
MaxItems == 2

\* The node and interface identifiers of the generated topologies.
NodeIds == {1, 2, 3}
IfaceIds == {1, 2}

\* #[derive(Default)] of IfaceIndex(u8)
DefaultIfaceIndex == 0

InterfaceTypes == {"LocalApp", "LocalNet", "Internet"}

(***************************************************************************)
(* Sequences helpers.                                                      *)
(***************************************************************************)
Range(s) == {s[k] : k \in DOMAIN s}

\* All orders in which the keys S of a HashMap can be iterated.
RECURSIVE Perms(_)
Perms(S) ==
    IF S = {} THEN {<<>>}
    ELSE UNION {{Append(s, x) : s \in Perms(S \ {x})} : x \in S}

\* The numbers S in ascending order.
RECURSIVE Ascending(_)
Ascending(S) ==
    IF S = {} THEN <<>>
    ELSE LET least == CHOOSE x \in S : \A y \in S : x <= y
         IN  <<least>> \o Ascending(S \ {least})

(***************************************************************************)
(* The data model.                                                         *)
(***************************************************************************)
PathNode_new(id) ==
    [id |-> id, forward_if_id |-> DefaultIfaceIndex, reverse_if_id |-> DefaultIfaceIndex]

Interface_new(id, if_type, neighbors) ==
    [id |-> id, if_type |-> if_type, neighbors |-> neighbors]

TopologyNode_new(id) == [id |-> id, ifaces |-> [k \in {} |-> k]]

\* HashMap::insert: insert or overwrite
add_iface(node, iface) ==
    [node EXCEPT !.ifaces = (iface.id :> iface) @@ node.ifaces]

Topology_new == [k \in {} |-> k]

add_node(t, node) == (node.id :> node) @@ t


(***************************************************************************)
(* The queries of the store.                                               *)
(***************************************************************************)
\* find_internet_gateway's inner loop over node.ifaces.values(), in the
\* order `order`, from position k: pushes n_id at the first Internet
\* interface and breaks.
\* Mutant: the break is missing.
RECURSIVE gateway_ifaces_loop_no_break(_, _, _, _, _)
gateway_ifaces_loop_no_break(n_id, node, order, k, res) ==
    IF k > Len(order) THEN res
    ELSE gateway_ifaces_loop_no_break(n_id, node, order, k + 1,
             IF node.ifaces[order[k]].if_type = "Internet"
             THEN Append(res, n_id) ELSE res)

RECURSIVE gateway_ifaces_loop(_, _, _, _, _)
gateway_ifaces_loop(n_id, node, order, k, res) ==
    IF k > Len(order) THEN res
    ELSE IF node.ifaces[order[k]].if_type = "Internet"
         THEN Append(res, n_id)
         ELSE gateway_ifaces_loop(n_id, node, order, k + 1, res)

\* find_internet_gateway's outer loop over self.nodes.iter(), in the order
\* node_order, from position k.
RECURSIVE gateway_nodes_loop(_, _, _, _, _)
gateway_nodes_loop(t, node_order, iface_orders, k, res) ==
    IF k > Len(node_order) THEN res
    ELSE LET n_id == node_order[k]
         IN  gateway_nodes_loop(t, node_order, iface_orders, k + 1,
                 gateway_ifaces_loop(n_id, t[n_id], iface_orders[n_id], 1, res))

find_internet_gateway(t, node_order, iface_orders) ==
    gateway_nodes_loop(t, node_order, iface_orders, 1, <<>>)

\* get_adjacent_interface's loop over iface.neighbors from position k.
RECURSIVE adjacent_loop(_, _, _)
adjacent_loop(neighbors, to_node, k) ==
    IF k > Len(neighbors) THEN <<>>
    ELSE IF neighbors[k][1] = to_node
         THEN <<neighbors[k][2]>>
         ELSE adjacent_loop(neighbors, to_node, k + 1)

\* Mutant: every interface of from_node is searched, not via_if alone.
get_adjacent_interface_any_iface(t, from_node, via_if, to_node) ==
    LET ifaces == t[from_node].ifaces
        hits == {i \in DOMAIN ifaces :
                    adjacent_loop(ifaces[i].neighbors, to_node, 1) # <<>>}
    IN  IF hits = {} THEN <<>>
        ELSE adjacent_loop(ifaces[CHOOSE i \in hits : TRUE].neighbors, to_node, 1)

get_adjacent_interface(t, from_node, via_if, to_node) ==
    adjacent_loop(t[from_node].ifaces[via_if].neighbors, to_node, 1)

\* get_local_iface_id_type's loop over &node.ifaces, in the order `order`.
RECURSIVE local_iface_loop(_, _, _, _)
local_iface_loop(node, if_type, order, k) ==
    IF k > Len(order) THEN <<>>
    ELSE IF node.ifaces[order[k]].if_type = if_type
         THEN <<order[k]>>
         ELSE local_iface_loop(node, if_type, order, k + 1)

get_local_iface_id_type(t, id, if_type, order) ==
    local_iface_loop(t[id], if_type, order, 1)

get_local_app_iface_id(t, id, order) ==
    get_local_iface_id_type(t, id, "LocalApp", order)

get_internet_iface_id(t, id, order) ==
    get_local_iface_id_type(t, id, "Internet", order)

(***************************************************************************)
(* The pieces of find_path.                                                *)
(***************************************************************************)
\* Mutant: the node the search is at (the tail of the path) is not compared.
check_if_visitted_skips_tail(id, path) ==
    \E k \in 1..(Len(path) - 1) : path[k].id = id

\* Mutant: the origin (the head of the path) is not compared.
check_if_visitted_skips_head(id, path) ==
    \E k \in 2..Len(path) : path[k].id = id

check_if_visitted(id, path) == \E k \in DOMAIN path : path[k].id = id

\* Mutant: the entry interface is not recorded.
push_path_node_untagged(path, start_id, start_if_id) ==
    Append(path, PathNode_new(start_id))

\* let mut path_node = PathNode::new(start_id);
\* path_node.reverse_if_id = start_if_id; curr_path.nodes.push_back(path_node)
push_path_node(path, start_id, start_if_id) ==
    Append(path, [PathNode_new(start_id) EXCEPT !.reverse_if_id = start_if_id])

\* Mutant: the exit interface is recorded only while it is unset.
tag_forward_once(path, if_id) ==
    IF path[Len(path)].forward_if_id = DefaultIfaceIndex
    THEN [path EXCEPT ![Len(path)].forward_if_id = if_id]
    ELSE path

\* curr_path.nodes.back_mut().unwrap().forward_if_id = if_id
tag_forward(path, if_id) ==
    [path EXCEPT ![Len(path)].forward_if_id = if_id]

\* curr_path.nodes.pop_back()
pop_back(path) == SubSeq(path, 1, Len(path) - 1)

\* start_node.ifaces.values().filter(LocalNet).map(id).collect()
local_net_ifaces(node, order) ==
    SelectSeq(order, LAMBDA i : node.ifaces[i].if_type = "LocalNet")

\* Mutant: the predicate is inverted, only the visited interface is kept.
retain_inverted(ifaces_to_visit, if_id) ==
    SelectSeq(ifaces_to_visit, LAMBDA x : x = if_id)

\* ifaces_to_visit.retain(|&x| x != *if_id)
retain(ifaces_to_visit, if_id) ==
    SelectSeq(ifaces_to_visit, LAMBDA x : x # if_id)

\* Mutant: the assignment is missing.
flag_on_success_missing(flag) == flag

\* flag = true, on a successful branch that is not the last one
flag_on_success(flag) == TRUE

\* A frame of find_path that is in its loop over the interfaces.
\*   if_pos:    position in the node's iteration order of the interface
\*              visited; 0 before the first one
\*   neigh_pos: position in iface.neighbors of the neighbor to look at next
\*   entry_len: history, Len(path_vec) when the call was entered
Frame(start_id, ifaces_to_visit, entry_len) ==
    [start_id |-> start_id, ifaces_to_visit |-> ifaces_to_visit, flag |-> FALSE,
     if_pos |-> 0, neigh_pos |-> 1, entry_len |-> entry_len]

Top == stack[Len(stack)]
TopNode == topo[Top.start_id]
TopOrder == iter_order[Top.start_id]
TopIface == TopNode.ifaces[TopOrder[Top.if_pos]]
TopNeighbors == IF Top.if_pos = 0 THEN <<>> ELSE TopIface.neighbors
TopNeighbor == TopNeighbors[Top.neigh_pos]
SetTop(f) == [stack EXCEPT ![Len(stack)] = f]
Pop == SubSeq(stack, 1, Len(stack) - 1)

QueryVars == <<query>>
TopoVars == <<topo, origin, finish_id, finish_if_id>>
CallVars == <<calls, prev_paths>>

(***************************************************************************)
(* find_path, one action per block of its body.                            *)
(***************************************************************************)
\* Lines 202-217: the call is entered at the finish node.
FoundFinish ==
    /\ pc = "call"
    /\ callee.id = finish_id
    /\ curr_path' = tag_forward(push_path_node(curr_path, callee.id, callee.if_id),
                                finish_if_id)
    /\ path_vec' = Append(path_vec, curr_path')
    /\ ret' = TRUE
    /\ ret_base' = Len(path_vec)
    /\ pc' = "ret"
    /\ UNCHANGED <<iter_order, stack, callee>>
    /\ UNCHANGED <<TopoVars, CallVars, QueryVars>>

\* Lines 202-205 and 219-224: the call is entered at another node and sets
\* up its loop.  The ifaces map is iterated in the order it has had since
\* it was built; that order becomes known here.
StartLoop ==
    /\ pc = "call"
    /\ callee.id # finish_id
    /\ curr_path' = push_path_node(curr_path, callee.id, callee.if_id)
    /\ \E o \in (IF iter_order[callee.id] = <<>>
                 THEN Perms(DOMAIN topo[callee.id].ifaces)
                 ELSE {iter_order[callee.id]}) :
          /\ iter_order' = [iter_order EXCEPT ![callee.id] = o]
          /\ stack' = Append(stack, Frame(callee.id,
                                          local_net_ifaces(topo[callee.id], o),
                                          Len(path_vec)))
    /\ pc' = "loop"
    /\ UNCHANGED <<path_vec, callee, ret, ret_base>>
    /\ UNCHANGED <<TopoVars, CallVars, QueryVars>>

\* Lines 226-227, 257-261: the neighbors of the interface visited are
\* exhausted (or no interface was visited yet) and the outer loop takes its
\* next interface.
NextIface ==
    /\ pc = "loop"
    /\ Top.neigh_pos > Len(TopNeighbors)
    /\ Top.if_pos < Len(TopOrder)
    /\ stack' = SetTop([Top EXCEPT
                          !.ifaces_to_visit = retain(@, TopOrder[Top.if_pos + 1]),
                          !.if_pos = @ + 1,
                          !.neigh_pos = 1])
    /\ UNCHANGED <<iter_order, curr_path, path_vec, callee, pc, ret, ret_base>>
    /\ UNCHANGED <<TopoVars, CallVars, QueryVars>>

\* Lines 229-230, 254-256: the neighbor is on the path already.
SkipVisited ==
    /\ pc = "loop"
    /\ Top.neigh_pos <= Len(TopNeighbors)
    /\ check_if_visitted(TopNeighbor[1], curr_path)
    /\ stack' = SetTop([Top EXCEPT !.neigh_pos = @ + 1])
    /\ UNCHANGED <<iter_order, curr_path, path_vec, callee, pc, ret, ret_base>>
    /\ UNCHANGED <<TopoVars, CallVars, QueryVars>>

\* Lines 229-235: the neighbor is new; tag the exit interface and call.
Recurse ==
    /\ pc = "loop"
    /\ Top.neigh_pos <= Len(TopNeighbors)
    /\ ~check_if_visitted(TopNeighbor[1], curr_path)
    /\ curr_path' = tag_forward(curr_path, TopOrder[Top.if_pos])
    /\ callee' = [id |-> TopNeighbor[1], if_id |-> TopNeighbor[2]]
    /\ pc' = "call"
    /\ UNCHANGED <<iter_order, path_vec, stack, ret, ret_base>>
    /\ UNCHANGED <<TopoVars, CallVars, QueryVars>>

\* Lines 257-263: the neighbors of the last interface are exhausted (or
\* the node has no interface); return flag.
ReturnFlag ==
    /\ pc = "loop"
    /\ Top.neigh_pos > Len(TopNeighbors)
    /\ Top.if_pos >= Len(TopOrder)
    /\ ret' = Top.flag
    /\ ret_base' = Top.entry_len
    /\ stack' = Pop
    /\ pc' = "ret"
    /\ UNCHANGED <<iter_order, curr_path, path_vec, callee>>
    /\ UNCHANGED <<TopoVars, CallVars, QueryVars>>

\* Lines 235-242: the call returned true and interfaces remain to visit.
BranchSucceededContinue ==
    /\ pc = "ret"
    /\ stack # <<>>
    /\ ret
    /\ Top.ifaces_to_visit # <<>>
    /\ curr_path' = pop_back(curr_path)
    /\ stack' = SetTop([Top EXCEPT !.flag = flag_on_success(@),
                                   !.neigh_pos = @ + 1])
    /\ pc' = "loop"
    /\ UNCHANGED <<iter_order, path_vec, callee, ret, ret_base>>
    /\ UNCHANGED <<TopoVars, CallVars, QueryVars>>

\* Lines 235-237, 243-247: the call returned true and no interface remains
\* to visit; return true at once.
BranchSucceededReturn ==
    /\ pc = "ret"
    /\ stack # <<>>
    /\ ret
    /\ Top.ifaces_to_visit = <<>>
    /\ curr_path' = pop_back(curr_path)
    /\ ret' = TRUE
    /\ ret_base' = Top.entry_len
    /\ stack' = Pop
    /\ UNCHANGED <<iter_order, path_vec, callee, pc>>
    /\ UNCHANGED <<TopoVars, CallVars, QueryVars>>

\* Lines 235, 249-252: the call returned false.
BranchFailed ==
    /\ pc = "ret"
    /\ stack # <<>>
    /\ ~ret
    /\ curr_path' = pop_back(curr_path)
    /\ stack' = SetTop([Top EXCEPT !.neigh_pos = @ + 1])
    /\ pc' = "loop"
    /\ UNCHANGED <<iter_order, path_vec, callee, ret, ret_base>>
    /\ UNCHANGED <<TopoVars, CallVars, QueryVars>>

\* The top-level call returns to its caller (lines 388-392, 502-504).
Finish ==
    /\ pc = "ret"
    /\ stack = <<>>
    /\ pc' = "done"
    /\ UNCHANGED <<iter_order, curr_path, path_vec, stack, callee, ret, ret_base>>
    /\ UNCHANGED <<TopoVars, CallVars, QueryVars>>

Next ==
    \/ FoundFinish
    \/ StartLoop
    \/ NextIface
    \/ SkipVisited
    \/ Recurse
    \/ ReturnFlag
    \/ BranchSucceededContinue
    \/ BranchSucceededReturn
    \/ BranchFailed
    \/ Finish

(***************************************************************************)
(* The topologies.                                                         *)
(***************************************************************************)
\* A construction decision: a neighbor link (node, iface) -> (to, to_if)
\* pushed on the interface's neighbors, or the type of (node, iface).
LinkItems ==
    [kind : {"link"}, node : NodeIds, iface : IfaceIds,
     to : NodeIds, to_if : IfaceIds, if_type : {"LocalNet"}]

TypeItems ==
    [kind : {"type"}, node : NodeIds, iface : IfaceIds,
     to : {0}, to_if : {0}, if_type : {"LocalApp", "Internet"}]

Items == LinkItems \cup TypeItems

ItemSeqs == UNION {[1..m -> Items] : m \in 0..MaxItems}

\* The neighbors vector of (n, i): its links in the order they were decided;
\* the same link may be listed twice.
GenNeighbors(n, i, items) ==
    LET sel == SelectSeq(items, LAMBDA it :
                   it.kind = "link" /\ it.node = n /\ it.iface = i)
    IN  [k \in 1..Len(sel) |-> <<sel[k].to, sel[k].to_if>>]

\* The type of (n, i): LocalNet unless decided otherwise.
GenType(n, i, items) ==
    LET sel == SelectSeq(items, LAMBDA it :
                   it.kind = "type" /\ it.node = n /\ it.iface = i)
    IN  IF sel = <<>> THEN "LocalNet" ELSE sel[Len(sel)].if_type

\* Topology::new, and for every node TopologyNode::new, add_iface of every
\* interface Interface::new(i, type, neighbors), add_node.
GenTopology(items) ==
    [n \in NodeIds |->
        [id |-> n,
         ifaces |-> [i \in IfaceIds |->
            Interface_new(i, GenType(n, i, items), GenNeighbors(n, i, items))]]]

GenTopologies == {GenTopology(items) : items \in ItemSeqs}

\* tests::create_line_topology: A(1) -- (1)B(2) -- (1)C
n_a == 10
n_b == 11
n_c == 12
n_d == 13
n_e == 14
n_f == 15

create_line_topology ==
    LET node_a == add_iface(TopologyNode_new(n_a),
                      Interface_new(1, "LocalNet", <<(<<n_b, 1>>)>>))
        node_b == add_iface(add_iface(TopologyNode_new(n_b),
                      Interface_new(1, "LocalNet", <<(<<n_a, 1>>)>>)),
                      Interface_new(2, "LocalNet", <<(<<n_c, 1>>)>>))
        node_c == add_iface(TopologyNode_new(n_c),
                      Interface_new(1, "LocalNet", <<(<<n_b, 2>>)>>))
    IN  add_node(add_node(add_node(Topology_new, node_a), node_b), node_c)

\* get_node_mut(node_id).add_iface(iface)
add_iface_at(t, node_id, iface) ==
    [t EXCEPT ![node_id] = add_iface(@, iface)]

\* tests::create_line_topology_with_internet
create_line_topology_with_internet ==
    add_iface_at(create_line_topology, n_c, Interface_new(2, "Internet", <<>>))

\* tests::create_line_topology_with_internet_2
create_line_topology_with_internet_2 ==
    add_iface_at(create_line_topology_with_internet, n_a,
                 Interface_new(2, "Internet", <<>>))

\* tests::create_big_topology
\* Internet -- (1)A(2) -- (1)B(4) -- (1)C(2) -- Internet
\*                        (2)(3)    (3)(4)
\*                         |  |    /    |
\*                        (2)(3)(4)     (2)
\*                D(1) -- (1)E(5) -- (1)F
create_big_topology ==
    LET if_a_a == Interface_new(0, "LocalApp", <<>>)
        if_a_1 == Interface_new(1, "Internet", <<>>)
        if_a_2 == Interface_new(2, "LocalNet", <<(<<n_b, 1>>)>>)
        if_b_a == Interface_new(0, "LocalApp", <<>>)
        if_b_1 == Interface_new(1, "LocalNet", <<(<<n_a, 2>>)>>)
        if_b_2 == Interface_new(2, "LocalNet", <<(<<n_e, 2>>)>>)
        if_b_3 == Interface_new(3, "LocalNet", <<(<<n_e, 3>>)>>)
        if_b_4 == Interface_new(4, "LocalNet", <<(<<n_c, 1>>)>>)
        if_c_a == Interface_new(0, "LocalApp", <<>>)
        if_c_1 == Interface_new(1, "LocalNet", <<(<<n_b, 4>>)>>)
        if_c_2 == Interface_new(2, "Internet", <<>>)
        if_c_3 == Interface_new(3, "LocalNet", <<(<<n_e, 4>>)>>)
        if_c_4 == Interface_new(4, "LocalNet", <<(<<n_f, 2>>)>>)
        if_d_a == Interface_new(0, "LocalApp", <<>>)
        if_d_1 == Interface_new(1, "LocalNet", <<(<<n_e, 1>>)>>)
        if_e_a == Interface_new(0, "LocalApp", <<>>)
        if_e_1 == Interface_new(1, "LocalNet", <<(<<n_d, 1>>)>>)
        if_e_2 == Interface_new(2, "LocalNet", <<(<<n_b, 2>>)>>)
        if_e_3 == Interface_new(3, "LocalNet", <<(<<n_b, 3>>)>>)
        if_e_4 == Interface_new(4, "LocalNet", <<(<<n_c, 3>>)>>)
        if_e_5 == Interface_new(5, "LocalNet", <<(<<n_f, 1>>)>>)
        if_f_a == Interface_new(0, "LocalApp", <<>>)
        if_f_1 == Interface_new(1, "LocalNet", <<(<<n_e, 5>>)>>)
        if_f_2 == Interface_new(2, "LocalNet", <<(<<n_c, 4>>)>>)
        node_a == add_iface(add_iface(add_iface(TopologyNode_new(n_a),
                      if_a_a), if_a_1), if_a_2)
        node_b == add_iface(add_iface(add_iface(add_iface(add_iface(
                      TopologyNode_new(n_b), if_b_a), if_b_1), if_b_2), if_b_3), if_b_4)
        node_c == add_iface(add_iface(add_iface(add_iface(add_iface(
                      TopologyNode_new(n_c), if_c_a), if_c_1), if_c_2), if_c_3), if_c_4)
        node_d == add_iface(add_iface(TopologyNode_new(n_d), if_d_a), if_d_1)
        node_e == add_iface(add_iface(add_iface(add_iface(add_iface(add_iface(
                      TopologyNode_new(n_e), if_e_a), if_e_1), if_e_2), if_e_3),
                      if_e_4), if_e_5)
        node_f == add_iface(add_iface(add_iface(TopologyNode_new(n_f),
                      if_f_a), if_f_1), if_f_2)
    IN  add_node(add_node(add_node(add_node(add_node(add_node(Topology_new,
            node_a), node_b), node_c), node_d), node_e), node_f)

(***************************************************************************)
(* Initial states and specifications.                                      *)
(***************************************************************************)
NoQuery == [op |-> "none", args |-> <<>>, res |-> <<>>]

\* The interface tags (start_if_id, finish_if_id) a caller passes.
ArgIfaces == {<<1, 2>>, <<2, 1>>}

\* The nodes a search starts from: node 1 of a generated topology (the
\* generated topologies are closed under renaming their nodes), every node
\* of the line topology.
StartIds == {1, n_a, n_b, n_c}

\* A caller holding an empty Path and an empty Vec<Path> calls find_path.
CallFindPath(start_id, start_if_id) ==
    /\ origin = [id |-> start_id, if_id |-> start_if_id]
    /\ callee = origin
    /\ curr_path = <<>>
    /\ path_vec = <<>>
    /\ stack = <<>>
    /\ pc = "call"
    /\ ret = FALSE
    /\ ret_base = 0
    /\ calls = 1
    /\ prev_paths = <<>>
    /\ query = NoQuery

\* find_path on a generated topology or on the line topology of the tests,
\* with interface tags out of arg_ifaces.
InitWith(arg_ifaces) ==
    /\ topo \in GenTopologies \cup {create_line_topology}
    /\ iter_order = [n \in DOMAIN topo |-> <<>>]
    /\ finish_id \in DOMAIN topo
    /\ \E start_id \in StartIds \cap DOMAIN topo, ifs \in arg_ifaces :
          /\ finish_if_id = ifs[2]
          /\ CallFindPath(start_id, ifs[1])

Init == InitWith(ArgIfaces)

Spec == Init /\ [][Next]_vars

\* The search runs on: every call of find_path is executed to its return.
\* The interface tags, which the search only copies, are one pair here.
InitFair == InitWith({<<1, 2>>})

SpecFair == InitFair /\ [][Next]_vars /\ WF_vars(Next)

\* An interface whose visit in find_path's loop does nothing: the retain
\* removes no LocalNet id and there is no neighbor to iterate.
Inert(iface) == iface.if_type # "LocalNet" /\ iface.neighbors = <<>>

\* The iteration orders of a node's ifaces map, those interfaces first and
\* in ascending order.
InertFirstOrders(node) ==
    LET inert == {i \in DOMAIN node.ifaces : Inert(node.ifaces[i])}
    IN  {Ascending(inert) \o o : o \in Perms(DOMAIN node.ifaces \ inert)}

\* tests::find_path_in_big_topo_d_c: from D's LocalApp interface to C's
\* Internet interface.
InitBig ==
    /\ topo = create_big_topology
    /\ \E order_a \in InertFirstOrders(topo[n_a]),
          order_b \in InertFirstOrders(topo[n_b]),
          order_d \in InertFirstOrders(topo[n_d]),
          order_e \in InertFirstOrders(topo[n_e]),
          order_f \in InertFirstOrders(topo[n_f]) :
          iter_order = (n_a :> order_a) @@ (n_b :> order_b) @@ (n_c :> <<>>) @@
                       (n_d :> order_d) @@ (n_e :> order_e) @@ (n_f :> order_f)
    /\ finish_id = n_c
    /\ finish_if_id \in {get_internet_iface_id(topo, n_c, order_c)[1] :
                            order_c \in InertFirstOrders(topo[n_c])}
    /\ CallFindPath(n_d, get_local_app_iface_id(topo, n_d, iter_order[n_d])[1])

SpecBig == InitBig /\ [][Next]_vars

\* The same topology is built once more (the HashMaps of the new build have
\* hashers of their own, so their iteration orders are open again) and
\* find_path is called with the same arguments.
CallAgain ==
    /\ pc = "done"
    /\ calls = 1
    /\ calls' = 2
    /\ prev_paths' = path_vec
    /\ iter_order' = [n \in DOMAIN topo |-> <<>>]
    /\ callee' = origin
    /\ curr_path' = <<>>
    /\ path_vec' = <<>>
    /\ pc' = "call"
    /\ ret' = FALSE
    /\ ret_base' = 0
    /\ UNCHANGED <<stack, TopoVars, QueryVars>>

NextTwice == Next \/ CallAgain

SpecTwice == Init /\ [][NextTwice]_vars

(***************************************************************************)
(* The queries, called on a built topology.                                *)
(***************************************************************************)
\* One iteration order for the ifaces map of every node.
IfaceOrders(t) ==
    {f \in [DOMAIN t -> UNION {Perms(DOMAIN t[n].ifaces) : n \in DOMAIN t}] :
        \A n \in DOMAIN t : f[n] \in Perms(DOMAIN t[n].ifaces)}

InitQ ==
    /\ topo \in GenTopologies \cup {create_line_topology,
                                    create_line_topology_with_internet,
                                    create_line_topology_with_internet_2}
    /\ iter_order = [n \in DOMAIN topo |-> <<>>]
    /\ origin = [id |-> 0, if_id |-> 0]
    /\ callee = origin
    /\ finish_id = 0
    /\ finish_if_id = 0
    /\ curr_path = <<>>
    /\ path_vec = <<>>
    /\ stack = <<>>
    /\ pc = "query"
    /\ ret = FALSE
    /\ ret_base = 0
    /\ calls = 0
    /\ prev_paths = <<>>
    /\ query = NoQuery

QueryUnchanged ==
    UNCHANGED <<topo, iter_order, origin, finish_id, finish_if_id, curr_path,
                path_vec, stack, callee, pc, ret, ret_base, calls, prev_paths>>

CallFindInternetGateway ==
    /\ pc = "query"
    /\ query = NoQuery
    /\ \E node_order \in Perms(DOMAIN topo), iface_orders \in IfaceOrders(topo) :
          query' = [op |-> "find_internet_gateway", args |-> <<>>,
                    res |-> find_internet_gateway(topo, node_order, iface_orders)]
    /\ QueryUnchanged

CallGetAdjacentInterface ==
    /\ pc = "query"
    /\ query = NoQuery
    /\ \E from_node \in DOMAIN topo, to_node \in DOMAIN topo :
          \E via_if \in DOMAIN topo[from_node].ifaces :
             query' = [op |-> "get_adjacent_interface",
                       args |-> <<from_node, via_if, to_node>>,
                       res |-> get_adjacent_interface(topo, from_node, via_if, to_node)]
    /\ QueryUnchanged

NextQ == CallFindInternetGateway \/ CallGetAdjacentInterface

SpecQ == InitQ /\ [][NextQ]_vars

(***************************************************************************)
(* Notions the properties are stated with.                                 *)
(***************************************************************************)
Paths == Range(path_vec)

NodeSeq(path) == [k \in DOMAIN path |-> path[k].id]

NoRepeatedNode(path) ==
    \A a, b \in DOMAIN path : a # b => path[a].id # path[b].id

\* The neighbor links of node n: <<iface, neighbor node, neighbor-side iface>>.
LinksOf(t, n) ==
    UNION {{<<i, t[n].ifaces[i].neighbors[k][1], t[n].ifaces[i].neighbors[k][2]>> :
               k \in DOMAIN t[n].ifaces[i].neighbors} : i \in DOMAIN t[n].ifaces}

\* The nodes reachable from the nodes S by following neighbor links.
RECURSIVE ReachableFrom(_, _)
ReachableFrom(t, S) ==
    LET more == S \cup {l[2] : l \in UNION {LinksOf(t, n) : n \in S}}
    IN  IF more = S THEN S ELSE ReachableFrom(t, more)

\* Every node-distinct route that extends the hops `prefix` by entering
\* node u through interface rev and ends at the finish node, as a Path.
RECURSIVE RoutesFrom(_, _, _)
RoutesFrom(prefix, u, rev) ==
    IF u = finish_id
    THEN {Append(prefix, [id |-> u, forward_if_id |-> finish_if_id,
                          reverse_if_id |-> rev])}
    ELSE UNION {RoutesFrom(Append(prefix, [id |-> u, forward_if_id |-> l[1],
                                           reverse_if_id |-> rev]), l[2], l[3]) :
                   l \in {x \in LinksOf(topo, u) :
                             /\ x[2] # u
                             /\ \A k \in DOMAIN prefix : prefix[k].id # x[2]}}

SimpleRoutes == RoutesFrom(<<>>, origin.id, origin.if_id)

(***************************************************************************)
(* The properties.                                                         *)
(***************************************************************************)
\* C1: no path placed in the accumulator contains the same NodeId twice,
\* on every topology (cycles, self-links and parallel links included).
C1_NoRepeatedNode == \A p \in Paths : NoRepeatedNode(p)

\* A search that has returned a path of several nodes whose origin left
\* through an interface that lists the origin itself first.
C1_Witness ==
    /\ pc = "done"
    /\ \E p \in Paths :
          /\ Len(p) >= 2
          /\ topo[p[1].id].ifaces[p[1].forward_if_id].neighbors[1][1] = p[1].id

\* C2: when the top-level call has returned, the accumulator holds every
\* node-distinct route from the origin to the destination whose hops follow
\* neighbor links.
C2_AllSimplePaths == pc = "done" => SimpleRoutes \subseteq Paths

\* C3: two calls with the same arguments on the same topology, whatever the
\* order in which the interface maps are iterated in each, return the same
\* set of paths.
C3_SameSetWhateverTheOrder ==
    (pc = "done" /\ calls = 2) => Range(prev_paths) = Paths

\* C4: every call returns true exactly when it appended a path; the
\* top-level call returns true, with a path in the accumulator, exactly when
\* the destination is reachable from the origin by neighbor links.
C4_FlagIffPathFound ==
    /\ pc = "ret" => (ret <=> Len(path_vec) > ret_base)
    /\ pc = "done" =>
          /\ ret <=> finish_id \in ReachableFrom(topo, {origin.id})
          /\ ret <=> path_vec # <<>>

\* A search through three nodes that has returned true.
C4_Witness ==
    /\ pc = "done"
    /\ ret
    /\ \E p \in Paths : Len(p) = 3

\* C5: the first PathNode of every returned path carries the origin
\* interface as its entry tag, the last one the destination interface as
\* its exit tag.
C5_EndpointTags ==
    \A p \in Paths :
        /\ p[1].reverse_if_id = origin.if_id
        /\ p[Len(p)].forward_if_id = finish_if_id

\* A returned path of several hops whose last hop left through another
\* interface than the destination tag names.
C5_Witness ==
    /\ pc = "done"
    /\ \E p \in Paths : Len(p) >= 2 /\ p[Len(p) - 1].forward_if_id # finish_if_id

\* C6: every hop of a returned path is a neighbor link: the exit interface
\* of p exists on p's node and lists (q.id, q.reverse_if_id).
C6_HopsAreLinks ==
    \A p \in Paths : \A k \in 1..(Len(p) - 1) :
        /\ p[k].forward_if_id \in DOMAIN topo[p[k].id].ifaces
        /\ <<p[k + 1].id, p[k + 1].reverse_if_id>> \in
              Range(topo[p[k].id].ifaces[p[k].forward_if_id].neighbors)

\* A path returned through the second interface the origin iterates, after
\* the search went through the first one to another node and came back.
C6_Witness ==
    /\ pc = "done"
    /\ Len(iter_order[origin.id]) >= 2
    /\ \E p \in Paths :
          /\ Len(p) >= 2
          /\ p[1].forward_if_id = iter_order[origin.id][2]
          /\ \E l \in LinksOf(topo, origin.id) :
                l[1] = iter_order[origin.id][1] /\ l[2] # origin.id

\* C7, as claimed: from D to C on the big topology more than one path is
\* returned, and the returned paths are pairwise distinct as node sequences.
C7_DistinctNodeSequences ==
    pc = "done" =>
        /\ Len(path_vec) > 1
        /\ \A a, b \in DOMAIN path_vec :
              a # b => NodeSeq(path_vec[a]) # NodeSeq(path_vec[b])

\* C7, amended: more than one path is returned, and the returned paths are
\* pairwise distinct as sequences of PathNodes (node and interface tags).
C7_DistinctPaths ==
    pc = "done" =>
        /\ Len(path_vec) > 1
        /\ \A a, b \in DOMAIN path_vec : a # b => path_vec[a] # path_vec[b]

\* The search from D to C has returned, with two paths over the node
\* sequence D, E, B, C among its paths.
C7_Witness ==
    /\ pc = "done"
    /\ origin.id = n_d
    /\ finish_id = n_c
    /\ \E a, b \in DOMAIN path_vec :
          /\ a # b
          /\ NodeSeq(path_vec[a]) = <<n_d, n_e, n_b, n_c>>
          /\ NodeSeq(path_vec[b]) = <<n_d, n_e, n_b, n_c>>

\* The result of get_adjacent_interface(from, via_if, to) follows via_if's
\* neighbor list alone: a neighbor-side interface of `to` there, or empty.
AdjacentFollowsList ==
    query.op = "get_adjacent_interface" =>
        LET neighbors == topo[query.args[1]].ifaces[query.args[2]].neighbors
            on_list == {k \in DOMAIN neighbors : neighbors[k][1] = query.args[3]}
        IN  IF on_list = {}
            THEN query.res = <<>>
            ELSE \E k \in on_list : query.res = <<neighbors[k][2]>>

\* C8, as claimed: the result follows via_if's neighbor list alone, and it
\* is empty whenever to = from.
C8_AdjacentAndNeverSelf ==
    /\ AdjacentFollowsList
    /\ (query.op = "get_adjacent_interface" /\ query.args[3] = query.args[1])
          => query.res = <<>>

\* C8, amended: the result follows via_if's neighbor list alone; it is
\* empty for to = from unless that list holds a link back to `from`.
C8_Adjacent ==
    /\ AdjacentFollowsList
    /\ (/\ query.op = "get_adjacent_interface"
        /\ query.args[3] = query.args[1]
        /\ \A l \in LinksOf(topo, query.args[1]) :
              l[1] = query.args[2] => l[2] # query.args[1])
          => query.res = <<>>

\* `to` is a neighbor of `from` through another interface than via_if, and
\* the result is empty.
C8_Witness ==
    /\ query.op = "get_adjacent_interface"
    /\ query.res = <<>>
    /\ \E l \in LinksOf(topo, query.args[1]) :
          l[1] # query.args[2] /\ l[2] = query.args[3]

\* C9: find_internet_gateway returns the nodes that own an Internet
\* interface, each one once, and no other node.
C9_Gateways ==
    query.op = "find_internet_gateway" =>
        LET gateways == {n \in DOMAIN topo : \E i \in DOMAIN topo[n].ifaces :
                            topo[n].ifaces[i].if_type = "Internet"}
        IN  /\ Range(query.res) = gateways
            /\ Len(query.res) = Cardinality(gateways)

\* A gateway with two Internet interfaces has been returned.
C9_Witness ==
    /\ query.op = "find_internet_gateway"
    /\ \E n \in Range(query.res) :
          Cardinality({i \in DOMAIN topo[n].ifaces :
                          topo[n].ifaces[i].if_type = "Internet"}) >= 2

\* The path in progress holds no NodeId twice and is no longer than the
\* topology has nodes; a call is entered for a node that is not on it.
DepthBounded ==
    /\ NoRepeatedNode(curr_path)
    /\ Len(curr_path) <= Cardinality(DOMAIN topo)
    /\ pc = "call" => ~check_if_visitted(callee.id, curr_path)

\* C10: the recursion depth never exceeds the number of nodes, and the
\* search terminates.
C10_BoundedDepthAndTermination == []DepthBounded /\ <>(pc = "done")

\* On the line topology, which has cycles, the path in progress holds
\* every node.
C10_Witness ==
    /\ topo = create_line_topology
    /\ Len(curr_path) = Cardinality(DOMAIN topo)

=============================================================================
